---- MODULE Spec2Model ----
(***************************************************************************)
(* WasteNot: the Address entity (wastenot/models/address.py) and the Flask *)
(* request handlers (app.py).                                              *)
(*                                                                         *)
(* Python values are modelled as tagged records so that a str, an int,     *)
(* None, a tuple and a list stay distinguishable.  Floating-point degrees  *)
(* are modelled as integers in tenths of a degree (40.7 is 407).           *)
(***************************************************************************)
EXTENDS Integers, Sequences, FiniteSets, TLC

VARIABLES call, addr, wire, last, geoCalls, chats, bots, pc, local, resp

vars == <<call, addr, wire, last, geoCalls, chats, bots, pc, local, resp>>

addrVars == <<call, addr, wire, last, geoCalls>>

appVars == <<chats, bots, pc, local, resp>>

(***************************************************************************)
(* Bounds                                                                  *)
(***************************************************************************)
MaxGeoCalls == 2

NumThreads == 2

(***************************************************************************)
(* Python values                                                           *)
(***************************************************************************)
PyNone == [t |-> "NoneType", s |-> "", n |-> 0, xs |-> <<>>]

PyStr(s) == [t |-> "str", s |-> s, n |-> 0, xs |-> <<>>]

PyInt(n) == [t |-> "int", s |-> "", n |-> n, xs |-> <<>>]

PyTuple(xs) == [t |-> "tuple", s |-> "", n |-> 0, xs |-> xs]

PyList(xs) == [t |-> "list", s |-> "", n |-> 0, xs |-> xs]

\* bool(v): the truth value Python gives a value
Truthy(v) ==
  CASE v.t = "str" -> v.s # ""
    [] v.t = "int" -> v.n # 0
    [] v.t = "NoneType" -> FALSE
    [] OTHER -> v.xs # <<>>

DigitStr(d) ==
  CASE d = 0 -> "0" [] d = 1 -> "1" [] d = 2 -> "2" [] d = 3 -> "3"
    [] d = 4 -> "4" [] d = 5 -> "5" [] d = 6 -> "6" [] d = 7 -> "7"
    [] d = 8 -> "8" [] OTHER -> "9"

RECURSIVE NatStr(_)
NatStr(n) ==
  IF n < 10 THEN DigitStr(n) ELSE NatStr(n \div 10) \o DigitStr(n % 10)

\* str(v) as an f-string renders it
PyFormat(v) ==
  CASE v.t = "str" -> v.s
    [] v.t = "int" -> IF v.n < 0 THEN "-" \o NatStr(0 - v.n) ELSE NatStr(v.n)
    [] v.t = "NoneType" -> "None"
    [] OTHER -> "[...]"

(***************************************************************************)
(* Exceptions                                                              *)
(***************************************************************************)
NoError == [type |-> "", msg |-> ""]

Raise(type, msg) == [type |-> type, msg |-> msg]

(***************************************************************************)
(* State registry                                                          *)
(***************************************************************************)
StateMembers == {"NY"}

isValidAnyCase(state) ==
  state.t = "str" /\ state.s \in (StateMembers \cup {"ny"})

\* State.isValid: state in State.__members__
isValid(state) ==
  state.t = "str" /\ state.s \in StateMembers

(***************************************************************************)
(* Address construction                                                    *)
(***************************************************************************)
AddressFields == {"street1", "street2", "city", "state", "zip"}

RequiredFieldsNoZip == <<"street1", "city", "state">>

RequiredFieldsCityFirst == <<"city", "street1", "state", "zip">>

\* the list the validation loop of __post_init__ walks
RequiredFields == <<"street1", "city", "state", "zip">>

\* the dataclass-generated __init__: the five fields land in __dict__
NewAddress(street1, street2, city, state, zip) ==
  [f \in AddressFields |->
     CASE f = "street1" -> street1
       [] f = "street2" -> street2
       [] f = "city" -> city
       [] f = "state" -> state
       [] OTHER -> zip]

\* the for loop of __post_init__ from position i on: the first falsy field raises
RECURSIVE CheckRequired(_, _)
CheckRequired(self, i) ==
  IF i > Len(RequiredFields) THEN NoError
  ELSE IF ~Truthy(self[RequiredFields[i]])
       THEN Raise("ValueError", RequiredFields[i] \o " cannot be empty.")
       ELSE CheckRequired(self, i + 1)

\* Address.__str__
AddressStr(self) ==
  PyFormat(self["street1"])
    \o (IF Truthy(self["street2"]) THEN ", " \o PyFormat(self["street2"]) ELSE "")
    \o ", " \o PyFormat(self["city"]) \o ", " \o PyFormat(self["state"])
    \o " " \o PyFormat(self["zip"]) \o "."

HTTP_OK == 200

NoFeature == [hasCenter |-> FALSE, center |-> <<>>]

Feature(center) == [hasCenter |-> TRUE, center |-> center]

\* a reply of the geocoding endpoint: status code and the parsed JSON body
Response(status, hasFeatures, features) ==
  [status |-> status, hasFeatures |-> hasFeatures, features |-> features]

LatLonUnswapped(center) == PyTuple(<<center[1], center[2]>>)

\* return coordinates[1], coordinates[0]
LatLon(center) == PyTuple(<<center[2], center[1]>>)

\* Address.__get_coordinates after requests.get returned response
get_coordinates(self, response) ==
  IF response.status # HTTP_OK
  THEN [err |-> Raise("ValueError",
                      "Could not get coordinates for " \o AddressStr(self) \o "."),
        value |-> PyNone]
  ELSE IF ~response.hasFeatures
  THEN [err |-> Raise("KeyError", "'features'"), value |-> PyNone]
  ELSE IF Len(response.features) < 1
  THEN [err |-> Raise("IndexError", "list index out of range"), value |-> PyNone]
  ELSE IF ~response.features[1].hasCenter
  THEN [err |-> Raise("KeyError", "'center'"), value |-> PyNone]
  ELSE IF Len(response.features[1].center) < 2
  THEN [err |-> Raise("IndexError", "list index out of range"), value |-> PyNone]
  ELSE [err |-> NoError, value |-> LatLon(response.features[1].center)]

WithCoordinates(self, coordinates) ==
  [f \in AddressFields \cup {"coordinates"} |->
     IF f = "coordinates" THEN coordinates ELSE self[f]]

post_init_eager(self, response) ==
  LET g == get_coordinates(self, response)
      v == CheckRequired(self, 1)
  IN  IF v # NoError THEN [err |-> v, dict |-> self, calls |-> 1]
      ELSE IF ~isValid(self["state"])
      THEN [err |-> Raise("ValueError",
                          PyFormat(self["state"]) \o " is not a valid state."),
            dict |-> self, calls |-> 1]
      ELSE IF g.err # NoError THEN [err |-> g.err, dict |-> self, calls |-> 1]
      ELSE [err |-> NoError, dict |-> WithCoordinates(self, g.value), calls |-> 1]

\* Address.__post_init__; calls counts the geocoding requests it sent
post_init(self, response) ==
  LET v == CheckRequired(self, 1)
  IN  IF v # NoError THEN [err |-> v, dict |-> self, calls |-> 0]
      ELSE IF ~isValid(self["state"])
      THEN [err |-> Raise("ValueError",
                          PyFormat(self["state"]) \o " is not a valid state."),
            dict |-> self, calls |-> 0]
      ELSE LET g == get_coordinates(self, response)
           IN  IF g.err # NoError
               THEN [err |-> g.err, dict |-> self, calls |-> 1]
               ELSE [err |-> NoError,
                     dict |-> WithCoordinates(self, g.value), calls |-> 1]

(***************************************************************************)
(* JSON                                                                    *)
(***************************************************************************)
NoMembers == [k \in {} |-> PyNone]

\* a JSON text, by what it parses to: kind "invalid" does not parse
Text(kind, members) == [kind |-> kind, members |-> members]

NoText == Text("none", NoMembers)

JNull == [t |-> "null", s |-> "", n |-> 0, xs |-> <<>>]

JString(s) == [t |-> "string", s |-> s, n |-> 0, xs |-> <<>>]

JNumber(n) == [t |-> "number", s |-> "", n |-> n, xs |-> <<>>]

JArray(xs) == [t |-> "array", s |-> "", n |-> 0, xs |-> xs]

\* json.dumps of one value: a tuple and a list both become an array
JsonEncode(v) ==
  CASE v.t = "str" -> JString(v.s)
    [] v.t = "int" -> JNumber(v.n)
    [] v.t = "NoneType" -> JNull
    [] OTHER -> JArray(v.xs)

\* json.loads of one value: an array becomes a list
JsonDecode(j) ==
  CASE j.t = "string" -> PyStr(j.s)
    [] j.t = "number" -> PyInt(j.n)
    [] j.t = "null" -> PyNone
    [] OTHER -> PyList(j.xs)

\* json.dumps(self.__dict__)
JsonDumps(dict) ==
  Text("object", [k \in DOMAIN dict |-> JsonEncode(dict[k])])

\* json.loads(json_str) when json_str holds an object
JsonLoadsObject(text) ==
  [k \in DOMAIN text.members |-> JsonDecode(text.members[k])]

\* Address.deserialize: self.__dict__ = json.loads(json_str)
deserialize_loads(text) ==
  IF text.kind = "invalid"
  THEN [err |-> Raise("JSONDecodeError", "Expecting value: line 1 column 1 (char 0)"),
        dict |-> NoMembers]
  ELSE IF text.kind # "object"
  THEN [err |-> Raise("TypeError", "__dict__ must be set to a dictionary, not a 'list'"),
        dict |-> NoMembers]
  ELSE [err |-> NoError, dict |-> JsonLoadsObject(text)]

(***************************************************************************)
(* Inputs                                                                  *)
(***************************************************************************)
Street1Inputs == {PyStr(""), PyStr("123 Main St")}

Street2Inputs == {PyNone, PyStr("Apt 4")}

CityInputs == {PyStr(""), PyStr("Troy")}

StateInputs == {PyNone, PyStr(""), PyStr("NY"), PyStr("ny"), PyStr("CA")}

ZipInputs == {PyInt(0), PyInt(12180)}

AddressInputs ==
  {NewAddress(s1, s2, c, st, z) :
     s1 \in Street1Inputs, s2 \in Street2Inputs, c \in CityInputs,
     st \in StateInputs, z \in ZipInputs}

ResponseInputs ==
  { Response(404, FALSE, <<>>),
    Response(200, FALSE, <<>>),
    Response(200, TRUE, <<>>),
    Response(200, TRUE, <<NoFeature>>),
    Response(200, TRUE, <<Feature(<<-740>>)>>),
    Response(200, TRUE, <<Feature(<<-740, 407>>)>>),
    Response(200, TRUE, <<Feature(<<-737, 427>>), Feature(<<0, 0>>)>>) }

InvalidText == Text("invalid", NoMembers)

ArrayText == Text("array", NoMembers)

EmptyObjectText == Text("object", NoMembers)

RecordText(street1, hasCoordinates) ==
  Text("object",
       [k \in AddressFields \cup (IF hasCoordinates THEN {"coordinates"} ELSE {}) |->
          CASE k = "street1" -> JString(street1)
            [] k = "street2" -> JNull
            [] k = "city" -> JString("Troy")
            [] k = "state" -> JString("NY")
            [] k = "zip" -> JNumber(12180)
            [] OTHER -> JArray(<<427, -737>>)])

ForeignTexts ==
  { InvalidText, ArrayText, EmptyObjectText,
    RecordText("", TRUE), RecordText("1 Elm St", FALSE), RecordText("1 Elm St", TRUE) }

TextInputs == ForeignTexts \cup (IF wire = NoText THEN {} ELSE {wire})

(***************************************************************************)
(* Address operations                                                      *)
(***************************************************************************)
Outcome(op, err, text) == [op |-> op, err |-> err, text |-> text]

\* a = Address(street1, street2, city, state, zip); a raise leaves a as it was
Construct(self, response) ==
  /\ geoCalls < MaxGeoCalls
  /\ LET r == post_init(self, response)
     IN  /\ addr' = IF r.err = NoError THEN <<r.dict>> ELSE addr
         /\ geoCalls' = geoCalls + r.calls
         /\ last' = Outcome("construct", r.err, NoText)
  /\ UNCHANGED <<call, wire>>
  /\ UNCHANGED appVars

\* wire = a.serialize()
serialize ==
  /\ addr # <<>>
  /\ wire' = JsonDumps(addr[1])
  /\ last' = Outcome("serialize", NoError, NoText)
  /\ UNCHANGED <<call, addr, geoCalls>>
  /\ UNCHANGED appVars

\* a.deserialize(text)
deserialize(text) ==
  /\ addr # <<>>
  /\ LET r == deserialize_loads(text)
     IN  /\ addr' = IF r.err = NoError THEN <<r.dict>> ELSE addr
         /\ last' = Outcome("deserialize", r.err, text)
  /\ UNCHANGED <<call, wire, geoCalls>>
  /\ UNCHANGED appVars

(***************************************************************************)
(* HTTP boundary (app.py)                                                  *)
(***************************************************************************)
Threads == 1..NumThreads

Ids == {"a", "b"}

\* a request body: the byte 0xff (invalid UTF-8), the text "not json", a JSON
\* array of n elements, or a JSON object with the given keys (id is the value
\* of "id")
Request(kind, n, keys, id) == [kind |-> kind, n |-> n, keys |-> keys, id |-> id]

ChatRequests ==
  { Request("badutf8", 0, {}, ""), Request("notjson", 0, {}, ""),
    Request("array", 2, {}, ""), Request("object", 0, {}, ""),
    Request("object", 0, {"query", "x"}, "") }
  \cup { Request("object", 0, {"id", "query"}, i) : i \in Ids }
  \cup { Request("object", 0, {"id", "x"}, i) : i \in Ids }

PickupRequests ==
  { Request("badutf8", 0, {}, ""), Request("notjson", 0, {}, ""),
    Request("array", 1, {}, ""), Request("array", 2, {}, ""),
    Request("object", 0, {}, ""), Request("object", 0, {"home"}, ""),
    Request("object", 0, {"home", "work"}, "") }

NavigateRequests ==
  { Request("badutf8", 0, {}, ""), Request("notjson", 0, {}, ""),
    Request("object", 0, {"stops"}, "") }

\* len(data) of the parsed body
DataLen(request) ==
  IF request.kind = "array" THEN request.n ELSE Cardinality(request.keys)

NoResponse == [kind |-> "none", success |-> FALSE, error |-> "", id |-> "", bot |-> 0]

\* jsonify({"success": False, "error": str(e)})
FailureResponse(err) ==
  [kind |-> "json", success |-> FALSE, error |-> err.msg, id |-> "", bot |-> 0]

\* jsonify({"success": True, ...}); bot is the ChatBot that produced the prompt
SuccessResponse(id, bot) ==
  [kind |-> "json", success |-> TRUE, error |-> "", id |-> id, bot |-> bot]

\* jsonify({"route": route})
RouteResponse ==
  [kind |-> "route", success |-> FALSE, error |-> "", id |-> "", bot |-> 0]

\* the exception left the view function
Escaped(err) ==
  [kind |-> "exception", success |-> FALSE, error |-> err.msg, id |-> "", bot |-> 0]

NoLocal == [id |-> "", hasQuery |-> FALSE, bot |-> 0]

\* str(e) of the UnicodeDecodeError that b"\xff".decode("utf-8") raises
BadUtf8Message ==
  "'utf-8' codec can't decode byte 0xff in position 0: invalid start byte"

\* str(e) of the JSONDecodeError that json.loads("not json") raises
NotJsonMessage == "Expecting value: line 1 column 1 (char 0)"

\* chat up to the test id not in chats: the error raised, if any (request.json
\* reports a body it cannot parse as BadRequest; the text is the one of the
\* debug mode that app.run(debug=True) sets)
ChatParse(request) ==
  IF request.kind = "badutf8"
  THEN Raise("BadRequest",
             "400 Bad Request: Failed to decode JSON object: " \o BadUtf8Message)
  ELSE IF request.kind = "notjson"
  THEN Raise("BadRequest",
             "400 Bad Request: Failed to decode JSON object: " \o NotJsonMessage)
  ELSE IF DataLen(request) # 2
  THEN Raise("ValueError", "Invalid format.")
  ELSE IF request.kind = "array"
  THEN Raise("TypeError", "list indices must be integers or slices, not str")
  ELSE IF "id" \notin request.keys
  THEN Raise("KeyError", "'id'")
  ELSE NoError

\* chat, lines 35-39: read the request and test id not in chats
ChatBegin(t, request) ==
  /\ pc[t] = "idle"
  /\ LET e == ChatParse(request)
     IN  IF e # NoError
         THEN /\ resp' = [resp EXCEPT ![t] = FailureResponse(e)]
              /\ UNCHANGED <<pc, local>>
         ELSE /\ local' = [local EXCEPT ![t] =
                             [id |-> request.id, hasQuery |-> "query" \in request.keys,
                              bot |-> 0]]
              /\ pc' = [pc EXCEPT ![t] =
                          IF request.id \notin DOMAIN chats THEN "create" ELSE "respond"]
              /\ resp' = [resp EXCEPT ![t] = NoResponse]
  /\ UNCHANGED <<chats, bots>>
  /\ UNCHANGED addrVars

\* chats[id] = bot
PutChat(id, bot) ==
  [k \in DOMAIN chats \cup {id} |-> IF k = id THEN bot ELSE chats[k]]

\* ChatBot(): an opaque collaborator that returns a new ChatBot or raises
ChatBotOutcomes == {NoError, Raise("Exception", "ChatBot() failed")}

\* chat, line 40, right-hand side: ChatBot() runs before the store; bots[n] is
\* the id ChatBot n was made for; a raise is answered by the except block
ChatMake(t, outcome) ==
  /\ pc[t] = "create"
  /\ IF outcome = NoError
     THEN /\ bots' = Append(bots, local[t].id)
          /\ local' = [local EXCEPT ![t].bot = Len(bots) + 1]
          /\ pc' = [pc EXCEPT ![t] = "store"]
          /\ UNCHANGED resp
     ELSE /\ resp' = [resp EXCEPT ![t] = FailureResponse(outcome)]
          /\ pc' = [pc EXCEPT ![t] = "idle"]
          /\ local' = [local EXCEPT ![t] = NoLocal]
          /\ UNCHANGED bots
  /\ UNCHANGED chats
  /\ UNCHANGED addrVars

\* chat, line 40, the store: chats[id] = the ChatBot this request made
ChatStore(t) ==
  /\ pc[t] = "store"
  /\ chats' = PutChat(local[t].id, local[t].bot)
  /\ pc' = [pc EXCEPT ![t] = "respond"]
  /\ UNCHANGED <<bots, local, resp>>
  /\ UNCHANGED addrVars

\* ChatBot.getResponse(query): an opaque collaborator that answers
getResponse(bot) == NoError

\* chat, lines 41-48: data["query"], chats[id].getResponse(query), the reply
ChatRespond(t) ==
  /\ pc[t] = "respond"
  /\ resp' = [resp EXCEPT ![t] =
                IF ~local[t].hasQuery
                THEN FailureResponse(Raise("KeyError", "'query'"))
                ELSE IF getResponse(chats[local[t].id]) # NoError
                THEN FailureResponse(getResponse(chats[local[t].id]))
                ELSE SuccessResponse(local[t].id, chats[local[t].id])]
  /\ pc' = [pc EXCEPT ![t] = "idle"]
  /\ local' = [local EXCEPT ![t] = NoLocal]
  /\ UNCHANGED <<chats, bots>>
  /\ UNCHANGED addrVars

\* the body of pickup's try block: the exception it raises
pickup_try(request) ==
  IF request.kind = "badutf8"
  THEN Raise("UnicodeDecodeError", BadUtf8Message)
  ELSE IF request.kind = "notjson"
  THEN Raise("JSONDecodeError", NotJsonMessage)
  ELSE IF DataLen(request) # 1
  THEN Raise("ValueError", "Invalid format.")
  ELSE IF request.kind = "array"
  THEN Raise("AttributeError", "'list' object has no attribute 'keys'")
  ELSE Raise("AttributeError", "type object 'Address' has no attribute 'load'")

\* pickup: every exception of the try block becomes a failure response
pickup(t, request) ==
  /\ pc[t] = "idle"
  /\ LET e == pickup_try(request)
     IN  resp' = [resp EXCEPT ![t] =
                    IF e # NoError THEN FailureResponse(e)
                    ELSE SuccessResponse("", 0)]
  /\ UNCHANGED <<chats, bots, pc, local>>
  /\ UNCHANGED addrVars

\* RoutePlanner.load(text) and get_route(): an opaque collaborator
RoutePlannerLoad(request) == NoError

\* navigate: no try block, so what request.data.decode raises leaves the handler
navigate_result(request) ==
  IF request.kind = "badutf8"
  THEN Escaped(Raise("UnicodeDecodeError", BadUtf8Message))
  ELSE IF RoutePlannerLoad(request) # NoError
  THEN Escaped(RoutePlannerLoad(request))
  ELSE RouteResponse

navigate(t, request) ==
  /\ pc[t] = "idle"
  /\ resp' = [resp EXCEPT ![t] = navigate_result(request)]
  /\ UNCHANGED <<chats, bots, pc, local>>
  /\ UNCHANGED addrVars

(***************************************************************************)
(* Specifications                                                          *)
(***************************************************************************)
\* the arguments of a constructor call and the reply the lookup will give it
Call(self, response) == [self |-> self, response |-> response]

NoCall == Call(NewAddress(PyNone, PyNone, PyNone, PyNone, PyNone), Response(0, FALSE, <<>>))

CallInputs == {Call(self, response) : self \in AddressInputs, response \in ResponseInputs}

InitObjects ==
  /\ addr = <<>>
  /\ wire = NoText
  /\ last = Outcome("init", NoError, NoText)
  /\ geoCalls = 0
  /\ chats = <<>>
  /\ bots = <<>>
  /\ pc = [t \in Threads |-> "idle"]
  /\ local = [t \in Threads |-> NoLocal]
  /\ resp = [t \in Threads |-> NoResponse]

Init ==
  /\ call = NoCall
  /\ InitObjects

NextAddress ==
  \/ \E self \in AddressInputs, response \in ResponseInputs : Construct(self, response)
  \/ serialize
  \/ \E text \in TextInputs : deserialize(text)

SpecAddress == Init /\ [][NextAddress]_vars

\* one constructor call, fixed at the start, and what follows it
InitConstruct ==
  /\ call \in CallInputs
  /\ InitObjects

NextConstruct ==
  \/ Construct(call.self, call.response)
  \/ serialize
  \/ \E text \in TextInputs : deserialize(text)

SpecConstruct == InitConstruct /\ [][NextConstruct]_vars

NextApp ==
  \/ \E t \in Threads, request \in ChatRequests : ChatBegin(t, request)
  \/ \E t \in Threads, outcome \in ChatBotOutcomes : ChatMake(t, outcome)
  \/ \E t \in Threads : ChatStore(t)
  \/ \E t \in Threads : ChatRespond(t)
  \/ \E t \in Threads, request \in PickupRequests : pickup(t, request)
  \/ \E t \in Threads, request \in NavigateRequests : navigate(t, request)

SpecApp == Init /\ [][NextApp]_vars

(***************************************************************************)
(* Properties                                                              *)
(***************************************************************************)
HasTruthy(d, f) == f \in DOMAIN d /\ Truthy(d[f])

\* the invariants of an Address: required fields truthy, state registered,
\* coordinates a latitude/longitude pair
WellFormed(d) ==
  /\ \A f \in {"street1", "city", "state", "zip"} : HasTruthy(d, f)
  /\ d["state"].t = "str" /\ d["state"].s \in {"NY"}
  /\ "coordinates" \in DOMAIN d
  /\ d["coordinates"].t \in {"tuple", "list"}
  /\ Len(d["coordinates"].xs) = 2

\* every __dict__ a successful construction can produce from the inputs
ConstructedAddresses ==
  { post_init(c[1], c[2]).dict :
      c \in {x \in AddressInputs \X ResponseInputs : post_init(x[1], x[2]).err = NoError} }

AllRequiredTruthy(self) ==
  /\ Truthy(self["street1"]) /\ Truthy(self["city"])
  /\ Truthy(self["state"]) /\ Truthy(self["zip"])

PassesValidation(self) ==
  AllRequiredTruthy(self) /\ self["state"] = PyStr("NY")

\* the first of street1, city, state, zip that is falsy
FirstEmptyField(self) ==
  IF ~Truthy(self["street1"]) THEN "street1"
  ELSE IF ~Truthy(self["city"]) THEN "city"
  ELSE IF ~Truthy(self["state"]) THEN "state"
  ELSE "zip"

GeocodingFailed(response) ==
  \/ response.status # 200
  \/ ~response.hasFeatures
  \/ response.features = <<>>
  \/ ~response.features[1].hasCenter

\* C1 as stated: after any sequence of Construct and deserialize, the Address
\* the caller holds has truthy street1, city, state and zip, a registered
\* state and populated coordinates.
C1_EveryAddressWellFormed ==
  addr # <<>> => WellFormed(addr[1])

\* C1 amended: an Address returned by Construct is well formed, and it stays
\* well formed when a well-formed Address deserializes its own serialize output.
C1_ConstructedOrRoundTrippedWellFormed ==
  [][ /\ (last'.op = "construct" /\ last'.err = NoError) => WellFormed(addr'[1])
      /\ ( /\ last'.op = "deserialize" /\ last'.err = NoError
           /\ WellFormed(addr[1]) /\ last'.text = JsonDumps(addr[1]) )
         => WellFormed(addr'[1]) ]_vars

C1_Witness ==
  /\ last.op = "deserialize" /\ last.err = NoError /\ last.text = wire
  /\ WellFormed(addr[1]) /\ addr[1]["coordinates"].t = "list"

\* C2 as stated: deserializing serialize(a) of a constructed Address a yields
\* an Address equal to a in every field, coordinates still the tuple it was.
C2_RoundTrip ==
  [][ ( /\ last'.op = "deserialize" /\ last'.err = NoError
        /\ addr # <<>> /\ addr[1] \in ConstructedAddresses
        /\ last'.text = JsonDumps(addr[1]) )
      => addr' = addr ]_vars

\* C3 as stated: when validation passes and the lookup answers non-200, or 200
\* without features[0].center, Construct raises the resolution ValueError
\* "Could not get coordinates for <address>" and no Address is returned.
C3_GeocodingFailureIsResolutionError ==
  ( /\ last.op = "construct"
    /\ PassesValidation(call.self) /\ GeocodingFailed(call.response) )
  => /\ last.err = Raise("ValueError",
                         "Could not get coordinates for " \o AddressStr(call.self) \o ".")
     /\ addr = <<>>

RequiredKeys == {"street1", "street2", "city", "state", "zip", "coordinates"}

\* C4 as stated: deserialize of text that is no record, or a record lacking a
\* required key, raises and leaves the Address unchanged.
C4_DeserializeRejectsMalformed ==
  [][ \A text \in TextInputs :
        ( /\ deserialize(text)
          /\ (text.kind # "object" \/ ~(RequiredKeys \subseteq DOMAIN text.members)) )
        => (last'.err # NoError /\ addr' = addr) ]_vars

\* C5: Construct with a falsy required field raises ValueError naming the first
\* falsy field in the order street1, city, state, zip, whatever the state is,
\* and returns no Address.
C5_FirstEmptyFieldNamed ==
  (last.op = "construct" /\ ~AllRequiredTruthy(call.self))
  => /\ last.err = Raise("ValueError", FirstEmptyField(call.self) \o " cannot be empty.")
     /\ addr = <<>>

C5_Witness ==
  /\ last.op = "construct" /\ last.err = Raise("ValueError", "city cannot be empty.")
  /\ ~Truthy(call.self["state"]) /\ ~Truthy(call.self["zip"])

\* C6 as stated: for every state outside {"NY"}, the empty and the absent one
\* included, Construct raises "<state> is not a valid state" whatever the
\* other fields are.
C6_InvalidStateAlwaysNamed ==
  (last.op = "construct" /\ call.self["state"] # PyStr("NY"))
  => last.err = Raise("ValueError",
                      PyFormat(call.self["state"]) \o " is not a valid state.")

\* C6 amended: for every state outside {"NY"} Construct raises ValueError and
\* returns no Address; the error names the state when all four required
\* fields are non-empty, and the first empty required field otherwise.
C6_InvalidStateRejected ==
  (last.op = "construct" /\ call.self["state"] # PyStr("NY"))
  => /\ addr = <<>>
     /\ last.err =
          IF AllRequiredTruthy(call.self)
          THEN Raise("ValueError", PyFormat(call.self["state"]) \o " is not a valid state.")
          ELSE Raise("ValueError", FirstEmptyField(call.self) \o " cannot be empty.")

C6_Witness ==
  /\ last.op = "construct" /\ call.self["state"] = PyStr("ny")
  /\ last.err = Raise("ValueError", "ny is not a valid state.")

\* C7 as stated: no exception leaves a request handler; every error becomes a
\* structured failure response.
C7_NoExceptionEscapes ==
  \A t \in Threads : resp[t].kind # "exception"

\* C8: a successful lookup with center [longitude, latitude] gives the Address
\* coordinates (latitude, longitude).
C8_LatitudeFirst ==
  ( /\ last.op = "construct"
    /\ PassesValidation(call.self) /\ ~GeocodingFailed(call.response)
    /\ Len(call.response.features[1].center) >= 2 )
  => /\ last.err = NoError
     /\ addr # <<>>
     /\ addr[1]["coordinates"].t = "tuple"
     /\ addr[1]["coordinates"].xs[1] = call.response.features[1].center[2]
     /\ addr[1]["coordinates"].xs[2] = call.response.features[1].center[1]

C8_Witness ==
  /\ last.op = "construct" /\ last.err = NoError
  /\ call.response.features[1].center = <<-740, 407>>
  /\ addr # <<>> /\ addr[1]["coordinates"] = PyTuple(<<407, -740>>)

\* C9: a step sends at most one geocoding request, only Construct sends one,
\* Construct sends it exactly when validation has passed, and deserialize
\* sends none.
C9_GeocodingOnlyAfterValidation ==
  [][ /\ geoCalls' \in {geoCalls, geoCalls + 1}
      /\ (geoCalls' # geoCalls => last'.op = "construct")
      /\ (last'.op = "construct" /\ ~PassesValidation(call.self)) => geoCalls' = geoCalls
      /\ (last'.op = "construct" /\ PassesValidation(call.self)) => geoCalls' = geoCalls + 1
    ]_vars

C9_Witness ==
  /\ geoCalls = 1 /\ last.op = "deserialize" /\ last.err = NoError

\* C10 as stated: at most one ChatBot is ever created per id, a chats entry is
\* never replaced or removed, and all replies for an id come from one ChatBot.
C10_OneChatBotPerId ==
  [][ /\ \A i, j \in 1..Len(bots') : bots'[i] = bots'[j] => i = j
      /\ \A id \in DOMAIN chats : id \in DOMAIN chats' /\ chats'[id] = chats[id]
      /\ \A t, u \in Threads :
           (resp'[t].success /\ resp'[u].success /\ resp'[t].id = resp'[u].id)
           => resp'[t].bot = resp'[u].bot ]_vars

====
